---- MODULE Spec2Model ----
(***************************************************************************)
(* A model of simple_py_logger: the Logger configuration object of         *)
(* src/src/logger.py, the handler factories of src/src/handler_helpers.py  *)
(* it uses, and the process-wide name-to-logger table of the logging       *)
(* runtime that logging.getLogger reads and fills.                         *)
(*                                                                         *)
(* Strings whose characters matter (severity names) are sequences of       *)
(* one-character strings; names that are only compared are TLA+ strings.   *)
(* A handler is an object with an identity: its index in heap.  The list   *)
(* logging.Logger.handlers never holds one handler twice (addHandler       *)
(* appends only a handler that is not in it), so it is kept as a set.      *)
(***************************************************************************)
EXTENDS Integers, Sequences, FiniteSets, TLC

\* ------------------------------------------------------------------ bounds

\* Configuration objects (Logger instances) a history may construct.
NumCfgs == 2
\* Handler objects a history may create (two per construction, two per
\* reset_handlers_list, one per handler the caller builds for an update).
MaxHandlers == 4

Cfgs == 1..NumCfgs

\* ------------------------------------------------- constants of the program

NOTSET == 0
DEBUG == 10
INFO == 20
WARNING == 30
ERROR == 40
CRITICAL == 50

\* Python's None where a name (a str) or a logger is expected.
NoName == "<None>"
NoLogger == "<None>"
\* Python's None where a severity name is expected.
NoneLevel == << "<None>" >>

\* Keys of the destination registry.
ConsoleKey == "console_handler"
FileKey == "file_handler"
RichKey == "rich_console_handler"
TestKey == "test_handler"
\* Keys of the formatter registry.
DefaultFormatterKey == "default_formatter"
TestFormatterKey == "test_formatter"

\* Logger.DEFAULT_FORMATTER, and a formatter a caller builds.
DEFAULT_FORMATTER == "DEFAULT_FORMATTER"
CallerFormatter == "caller_formatter"

\* ------------------------------------------------------------------ inputs

\* Names the histories use for loggers.
LoggerNames == {"A", "B"}
\* The module_name argument of setup_logger: absent (None) or a name.
SetupNames == {NoName} \cup LoggerNames
\* Keys add_handler_logger and remove_handler_logger are given: one the
\* registry always holds and one it never holds.
AttachKeys == {FileKey, "rubbish"}
\* Keys update_handlers_list is given: a default's key and a new one.
UpdateKeys == {FileKey, TestKey}

s_DEBUG == << "D", "E", "B", "U", "G" >>
s_debug == << "d", "e", "b", "u", "g" >>
s_Error == << "E", "r", "r", "o", "r" >>
s_error_ == << "e", "r", "r", "o", "r", "_" >>
\* Severity arguments of the constructor and of setup_logger.
LevelArgs == {NoneLevel, s_DEBUG, s_debug, s_Error, s_error_}
\* The five severity names.
LevelNames ==
  { << "D", "E", "B", "U", "G" >>, << "I", "N", "F", "O" >>,
    << "W", "A", "R", "N", "I", "N", "G" >>, << "E", "R", "R", "O", "R" >>,
    << "C", "R", "I", "T", "I", "C", "A", "L" >> }
\* The keys update_handlers_list and get_handler are called with
RegistryKeys == {RichKey, TestKey}
LookupKeys == {ConsoleKey, FileKey, RichKey, TestKey, "rubbish"}
\* The keys update_formatters_list and get_formatter are called with
FormatterKeys == {DefaultFormatterKey, TestFormatterKey}
FormatterLookupKeys == {DefaultFormatterKey, TestFormatterKey, "rubbish"}
\* The directories that may exist under the working directory, and the
\* log_path arguments _derive_log_path is called with on its own.
PathDirs == {"logs", "custom", "data", "old", "tmp"}
PathCandidates == {NoName, "missing"} \cup PathDirs
\* The handler factories of handler_helpers
FactoryKinds ==
  {"console", "rich_console", "file", "rotate_file", "rotate_time",
   "syslog", "http"}
\* The log_level_int argument of a factory: an integer, a string or None.
NoThreshold == [t |-> "none", n |-> 0, s |-> ""]
ThresholdArgs ==
  { [t |-> "int", n |-> DEBUG, s |-> ""],
    [t |-> "int", n |-> ERROR, s |-> ""],
    [t |-> "str", n |-> 0, s |-> "DEBUG"],
    [t |-> "str", n |-> 0, s |-> "10"],
    NoThreshold }
m_GET == << "G", "E", "T" >>
m_POST == << "P", "O", "S", "T" >>
HttpMethods ==
  { m_GET, m_POST, << "g", "e", "t" >>, << "P", "o", "s", "t" >>,
    << "P", "U", "T" >>, << "f", "e", "t", "c", "h" >> }
\* The other arguments of a factory: the defaults, or one departure from
\* them named by tag; for create_http_handler the method as well.
Variant(tag) == [tag |-> tag, method |-> << >>]
Variants(kind) ==
  CASE kind = "console" -> {Variant("default"), Variant("stream_empty")}
    [] kind = "rich_console" -> {Variant("default")}
    [] kind = "file" ->
         {Variant("default"), Variant("mode_int"),
          Variant("mode_unknown_delay"), Variant("dir_missing")}
    [] kind = "rotate_file" ->
         {Variant("default"), Variant("maxBytes_negative"),
          Variant("dir_missing")}
    [] kind = "rotate_time" ->
         {Variant("default"), Variant("interval_negative"),
          Variant("when_unknown")}
    [] kind = "syslog" ->
         {Variant("default"), Variant("address_int"),
          Variant("facility_negative")}
    [] kind = "http" ->
         {[tag |-> "default", method |-> m] : m \in HttpMethods}
           \cup {[tag |-> "host_int", method |-> m_GET]}
\* The log_path argument of the constructor: absent, or a directory name.
PathArgs == {NoName, "custom"}

\* ------------------------------------------------------- string conversion

LowerLetters ==
  << "a", "b", "c", "d", "e", "f", "g", "h", "i", "j", "k", "l", "m",
     "n", "o", "p", "q", "r", "s", "t", "u", "v", "w", "x", "y", "z" >>
UpperLetters ==
  << "A", "B", "C", "D", "E", "F", "G", "H", "I", "J", "K", "L", "M",
     "N", "O", "P", "Q", "R", "S", "T", "U", "V", "W", "X", "Y", "Z" >>

\* The character U+0131, LATIN SMALL LETTER DOTLESS I, written by name.
DotlessI == "dotless_i"

\* str.upper on one character: a lower-case letter maps to its capital, the
\* dotless i to "I" (Unicode's upper-case mapping of U+0131), every other
\* character (capitals, digits, blanks, "_") to itself.
UpperChar(ch) ==
  IF \E i \in 1..Len(LowerLetters) : LowerLetters[i] = ch
  THEN UpperLetters[CHOOSE i \in 1..Len(LowerLetters) : LowerLetters[i] = ch]
  ELSE IF ch = DotlessI THEN "I" ELSE ch

\* str.upper
Upper(s) == [i \in 1..Len(s) |-> UpperChar(s[i])]

\* str(x) for a severity argument: str(None) is "None".
Str(x) == IF x = NoneLevel THEN << "N", "o", "n", "e" >> ELSE x

\* _std_log_level with a fault: the argument is matched as given.
StdLogLevel_NoUpper(log_level_str) ==
  LET s == IF log_level_str = NoneLevel
           THEN << "D", "E", "B", "U", "G" >> ELSE log_level_str
  IN  CASE s = << "D", "E", "B", "U", "G" >> -> DEBUG
        [] s = << "I", "N", "F", "O" >> -> INFO
        [] s = << "W", "A", "R", "N", "I", "N", "G" >> -> WARNING
        [] s = << "E", "R", "R", "O", "R" >> -> ERROR
        [] s = << "C", "R", "I", "T", "I", "C", "A", "L" >> -> CRITICAL
        [] OTHER -> INFO

\* _std_log_level
StdLogLevel(log_level_str) ==
  LET s == IF log_level_str = NoneLevel
           THEN << "D", "E", "B", "U", "G" >> ELSE log_level_str
      u == Upper(s)
  IN  CASE u = << "D", "E", "B", "U", "G" >> -> DEBUG
        [] u = << "I", "N", "F", "O" >> -> INFO
        [] u = << "W", "A", "R", "N", "I", "N", "G" >> -> WARNING
        [] u = << "E", "R", "R", "O", "R" >> -> ERROR
        [] u = << "C", "R", "I", "T", "I", "C", "A", "L" >> -> CRITICAL
        [] OTHER -> INFO

\* The lower-case letter of a capital.
LowerChar(ch) ==
  IF \E i \in 1..Len(UpperLetters) : UpperLetters[i] = ch
  THEN LowerLetters[CHOOSE i \in 1..Len(UpperLetters) : UpperLetters[i] = ch]
  ELSE ch

\* Every upper/lower/mixed-case spelling of a name written in capitals.
RECURSIVE Spellings(_)
Spellings(W) ==
  IF W = << >> THEN {<< >>}
  ELSE {<< ch >> \o t : ch \in {W[1], LowerChar(W[1])},
                        t \in Spellings(Tail(W))}

\* s with every "i" replaced by the dotless i.
Undotted(s) == [i \in 1..Len(s) |-> IF s[i] = "i" THEN DotlessI ELSE s[i]]

\* Arguments of _std_log_level called on its own: None, every spelling of
\* the five names, and strings that spell none of them.
LevelInputs ==
  {NoneLevel}
    \cup UNION {Spellings(W) : W \in LevelNames}
    \cup { << >>, << " ", "d", "e", "b", "u", "g" >>,
           << "I", "N", "F", "O", " " >>, << "N", "O", "N", "E" >>,
           << "W", "A", "R", "N" >>, << "N", "O", "T", "S", "E", "T" >>,
           << "1", "0" >>, s_error_,
           << "d", "e", "b", "u", "g", "g" >>, << "F", "A", "T", "A", "L" >> }
    \cup {Undotted(s) : s \in { << "i", "n", "f", "o" >>,
                                << "w", "a", "r", "n", "i", "n", "g" >>,
                                << "c", "r", "i", "t", "i", "c", "a", "l" >> }}

\* ------------------------------------------------------------------- state

VARIABLES
  cfg,      \* the configuration objects: cfg[c] is Logger instance c
  loggers,  \* the logging runtime's table: name -> logger object
  heap,     \* the handler objects created so far, by identity
  fs,       \* the directories that exist under the working directory
  lastOp,   \* the last call: operation, receiver, arguments, result
  lv_in,    \* _std_log_level called on its own: the argument
  lv_out    \* ... and the result (NOTSET before the call)

vars == << cfg, loggers, heap, fs, lastOp, lv_in, lv_out >>

Range(f) == {f[k] : k \in DOMAIN f}

EmptyDict == [k \in {} |-> 0]

\* dict[key] = value
DictSet(d, key, value) ==
  [k \in DOMAIN d \cup {key} |-> IF k = key THEN value ELSE d[k]]

\* A Logger instance that has not been constructed.
NoCfg ==
  [constructed |-> FALSE, module_name |-> "", log_path |-> "",
   log_level |-> << >>, log_level_int |-> NOTSET, logger |-> NoLogger,
   handlers |-> EmptyDict, formatters |-> EmptyDict]

\* A call record; the fields an operation does not use keep these values.
NoOp ==
  [op |-> "none", self |-> 0, key |-> "", name |-> "", level |-> << >>,
   ret |-> "None", obj |-> 0, fmt |-> "",
   thr |-> NoThreshold, arg |-> << >>, res |-> << >>]

Call(op, c) == [NoOp EXCEPT !.op = op, !.self = c]

\* ------------------------------------------------------------ path resolver

\* _check_path, on a path relative to the working directory
CheckPath(dirs, user_path) == user_path \in dirs

\* _derive_log_path with a fault: a missing directory is created and returned.
DeriveLogPath_CreateCandidate(dirs, log_path) ==
  IF log_path = NoName
  THEN [path |-> "logs", fs |-> dirs \cup {"logs"}]
  ELSE [path |-> log_path, fs |-> dirs \cup {log_path}]

\* _derive_log_path: the directory returned and the directories afterwards
DeriveLogPath(dirs, log_path) ==
  IF log_path = NoName \/ ~CheckPath(dirs, log_path)
  THEN [path |-> "logs", fs |-> dirs \cup {"logs"}]
  ELSE [path |-> log_path, fs |-> dirs]

\* -------------------------------------------------------- handler factories

\* create_console_handler
CreateConsoleHandler(log_level_int, formatter) ==
  [kind |-> "console", level |-> log_level_int, fmt |-> formatter,
   path |-> << >>]

\* create_rich_console_handler
CreateRichConsoleHandler(log_level_int, formatter) ==
  [kind |-> "rich_console", level |-> log_level_int, fmt |-> formatter,
   path |-> << >>]

\* create_file_handler
CreateFileHandler(log_level_int, formatter, log_path) ==
  [kind |-> "file", level |-> log_level_int, fmt |-> formatter,
   path |-> log_path]

\* The level names setLevel accepts in place of a number.
NameToLevel ==
  [n \in {"CRITICAL", "ERROR", "WARNING", "INFO", "DEBUG", "NOTSET"} |->
     CASE n = "CRITICAL" -> CRITICAL
       [] n = "ERROR" -> ERROR
       [] n = "WARNING" -> WARNING
       [] n = "INFO" -> INFO
       [] n = "DEBUG" -> DEBUG
       [] n = "NOTSET" -> NOTSET]

\* handler.setLevel(log_level_int): the error raised ("None" when there is
\* none) and the threshold stored.  A number is stored as it is, a level
\* name as its number; another string is a ValueError, any other value a
\* TypeError.
CheckLevel(log_level_int) ==
  IF log_level_int.t = "int"
  THEN [err |-> "None", val |-> log_level_int.n]
  ELSE IF log_level_int.t = "str"
       THEN IF log_level_int.s \in DOMAIN NameToLevel
            THEN [err |-> "None", val |-> NameToLevel[log_level_int.s]]
            ELSE [err |-> "ValueError", val |-> NOTSET]
       ELSE [err |-> "TypeError", val |-> NOTSET]

\* The constructor of the factory's sink: the error it raises, "None" when
\* it builds the sink.  The stream, the sizes and counts of the rotations,
\* the syslog facility and the HTTP host and URL are stored unchecked, and
\* so is the file mode when opening is delayed; HTTPHandler upper-cases the
\* method and accepts GET and POST.
SinkError(kind, params) ==
  CASE kind = "file" /\ params.tag = "mode_int" -> "TypeError"
    [] kind \in {"file", "rotate_file"} /\ params.tag = "dir_missing" ->
         "FileNotFoundError"
    [] kind = "rotate_time" /\ params.tag = "when_unknown" -> "ValueError"
    [] kind = "syslog" /\ params.tag = "address_int" -> "TypeError"
    [] kind = "http" /\ Upper(params.method) \notin {m_GET, m_POST} ->
         "ValueError"
    [] OTHER -> "None"

\* A factory with a fault: an error of the sink is caught and None returned.
CreateHandler_Catch(kind, log_level_int, formatter, params) ==
  LET lvl == CheckLevel(log_level_int)
      sink == IF kind = "rich_console" /\ lvl.err # "None"
              THEN lvl.err ELSE SinkError(kind, params)
  IN  IF sink # "None" THEN [raised |-> "None", res |-> << >>]
      ELSE IF lvl.err # "None" THEN [raised |-> lvl.err, res |-> << >>]
      ELSE [raised |-> "None",
            res |-> << [kind |-> kind, level |-> lvl.val, fmt |-> formatter,
                        method |-> IF kind = "http"
                                   THEN Upper(params.method) ELSE << >>] >>]

\* create_<kind>_handler: the sink is built (RichHandler is given the level
\* too), then setFormatter, then setLevel, then the handler is returned;
\* no error is caught.  raised is the error that leaves the factory, res
\* holds the handler returned.
CreateHandler(kind, log_level_int, formatter, params) ==
  LET lvl == CheckLevel(log_level_int)
      sink == IF kind = "rich_console" /\ lvl.err # "None"
              THEN lvl.err ELSE SinkError(kind, params)
  IN  IF sink # "None" THEN [raised |-> sink, res |-> << >>]
      ELSE IF lvl.err # "None" THEN [raised |-> lvl.err, res |-> << >>]
      ELSE [raised |-> "None",
            res |-> << [kind |-> kind, level |-> lvl.val, fmt |-> formatter,
                        method |-> IF kind = "http"
                                   THEN Upper(params.method) ELSE << >>] >>]

\* ------------------------------------------------------ the logging runtime

\* logging.getLogger(name): the logger registered under name, created with
\* no handlers, level NOTSET and propagation on when there is none yet.
GetLogger(lg, name) ==
  IF name \in DOMAIN lg THEN lg
  ELSE [n \in DOMAIN lg \cup {name} |->
          IF n = name
          THEN [handlers |-> {}, level |-> NOTSET, propagate |-> TRUE]
          ELSE lg[n]]

\* ------------------------------------------------ Logger: the pure effects

\* reset_handlers_logger with a fault: False for an empty list, as its
\* docstring words it.
ResetHandlersLoggerOn_FalseWhenEmpty(self, lg) ==
  IF self.logger # NoLogger
  THEN IF lg[self.logger].handlers = {}
       THEN [ret |-> FALSE, loggers |-> lg]
       ELSE [ret |-> TRUE,
             loggers |-> [lg EXCEPT ![self.logger].handlers = {}]]
  ELSE [ret |-> FALSE, loggers |-> lg]

\* reset_handlers_logger: the value returned and the table afterwards
ResetHandlersLoggerOn(self, lg) ==
  IF self.logger # NoLogger
  THEN IF lg[self.logger].handlers = {}
       THEN [ret |-> TRUE, loggers |-> lg]
       ELSE [ret |-> TRUE,
             loggers |-> [lg EXCEPT ![self.logger].handlers = {}]]
  ELSE [ret |-> FALSE, loggers |-> lg]

\* setup_logger with a fault: the propagate flag is left as getLogger
\* returned it.
SetupLoggerOn_KeepPropagate(self, lg, module_name, log_level) ==
  LET name == IF module_name \in {NoName, ""}
              THEN self.module_name ELSE module_name
      lg1 == GetLogger(lg, name)
      lg2 == [lg1 EXCEPT ![name].level = StdLogLevel(log_level)]
      lg3 == ResetHandlersLoggerOn(self, lg2).loggers
      lg5 == [lg3 EXCEPT ![name].handlers = @ \cup Range(self.handlers)]
  IN  [self |-> [self EXCEPT !.logger = name], loggers |-> lg5]

\* setup_logger: the object and the table afterwards.  _std_log_level
\* returns no falsy value, so the "or self.log_level" operand is never used.
SetupLoggerOn(self, lg, module_name, log_level) ==
  LET name == IF module_name \in {NoName, ""}
              THEN self.module_name ELSE module_name
      lg1 == GetLogger(lg, name)
      lg2 == [lg1 EXCEPT ![name].level = StdLogLevel(log_level)]
      lg3 == ResetHandlersLoggerOn(self, lg2).loggers
      lg4 == [lg3 EXCEPT ![name].propagate = FALSE]
      lg5 == [lg4 EXCEPT ![name].handlers = @ \cup Range(self.handlers)]
  IN  [self |-> [self EXCEPT !.logger = name], loggers |-> lg5]

\* remove_handler_logger with a fault: every handler is detached.
RemoveHandlerLoggerOn_All(self, lg, handler_key) ==
  IF handler_key \in DOMAIN self.handlers
  THEN IF self.logger = NoLogger
       THEN [ret |-> "AttributeError", loggers |-> lg]
       ELSE [ret |-> "True",
             loggers |-> [lg EXCEPT ![self.logger].handlers = {}]]
  ELSE [ret |-> "False", loggers |-> lg]

\* remove_handler_logger: the value returned (or the error raised, when
\* the logger field holds None) and the table afterwards.
\* logging.Logger.removeHandler drops the handler when it is attached.
RemoveHandlerLoggerOn(self, lg, handler_key) ==
  IF handler_key \in DOMAIN self.handlers
  THEN IF self.logger = NoLogger
       THEN [ret |-> "AttributeError", loggers |-> lg]
       ELSE [ret |-> "True",
             loggers |-> [lg EXCEPT ![self.logger].handlers =
                                      @ \ {self.handlers[handler_key]}]]
  ELSE [ret |-> "False", loggers |-> lg]

\* add_handler_logger with a fault: True without attaching anything.
AddHandlerLoggerOn_NoAttach(self, lg, handler_key) ==
  IF handler_key \in DOMAIN self.handlers
  THEN IF self.logger = NoLogger
       THEN [ret |-> "AttributeError", loggers |-> lg]
       ELSE [ret |-> "True", loggers |-> lg]
  ELSE [ret |-> "False", loggers |-> lg]

\* add_handler_logger: the value returned (or the error raised) and the
\* table afterwards.
AddHandlerLoggerOn(self, lg, handler_key) ==
  IF handler_key \in DOMAIN self.handlers
  THEN IF self.logger = NoLogger
       THEN [ret |-> "AttributeError", loggers |-> lg]
       ELSE [ret |-> "True",
             loggers |-> [lg EXCEPT ![self.logger].handlers =
                                      @ \cup {self.handlers[handler_key]}]]
  ELSE [ret |-> "False", loggers |-> lg]

\* get_handler with a fault: no fallback on a miss.
GetHandlerOf_NoFallback(self, handler_key) ==
  IF handler_key \in DOMAIN self.handlers
  THEN self.handlers[handler_key]
  ELSE 0

\* get_handler with a fault: on a miss the first of the three tests that
\* succeeds decides (console, then file, then rich console).
GetHandlerOf_FirstWins(self, handler_key) ==
  IF handler_key \in DOMAIN self.handlers
  THEN self.handlers[handler_key]
  ELSE IF ConsoleKey \in DOMAIN self.handlers
       THEN self.handlers[ConsoleKey]
       ELSE IF FileKey \in DOMAIN self.handlers
            THEN self.handlers[FileKey]
            ELSE IF RichKey \in DOMAIN self.handlers
                 THEN self.handlers[RichKey]
                 ELSE 0

\* get_handler with a fault: the test of the rich console entry is left out.
GetHandlerOf_NoRichTest(self, handler_key) ==
  IF handler_key \in DOMAIN self.handlers
  THEN self.handlers[handler_key]
  ELSE LET h0 == 0
           h1 == IF ConsoleKey \in DOMAIN self.handlers
                 THEN self.handlers[ConsoleKey] ELSE h0
           h2 == IF FileKey \in DOMAIN self.handlers
                 THEN self.handlers[FileKey] ELSE h1
       IN  h2

\* get_handler: the handler returned, 0 when the function ends with h
\* unbound (no entry under the key nor under any of the three defaults).
\* The three tests run in turn, so the last one that succeeds decides.
GetHandlerOf(self, handler_key) ==
  IF handler_key \in DOMAIN self.handlers
  THEN self.handlers[handler_key]
  ELSE LET h0 == 0
           h1 == IF ConsoleKey \in DOMAIN self.handlers
                 THEN self.handlers[ConsoleKey] ELSE h0
           h2 == IF FileKey \in DOMAIN self.handlers
                 THEN self.handlers[FileKey] ELSE h1
           h3 == IF RichKey \in DOMAIN self.handlers
                 THEN self.handlers[RichKey] ELSE h2
       IN  h3

\* get_formatter with a fault: on a miss the class constant is returned,
\* not the entry registered as default_formatter.
GetFormatterOf_ClassDefault(self, formatter_key) ==
  IF formatter_key \in DOMAIN self.formatters
  THEN self.formatters[formatter_key]
  ELSE DEFAULT_FORMATTER

\* get_formatter: the formatter returned, "KeyError" when the fallback
\* entry is missing too.
GetFormatterOf(self, formatter_key) ==
  IF formatter_key \in DOMAIN self.formatters
  THEN self.formatters[formatter_key]
  ELSE IF DefaultFormatterKey \in DOMAIN self.formatters
       THEN self.formatters[DefaultFormatterKey]
       ELSE "KeyError"

\* ------------------------------------------------------------------ actions

Init ==
  /\ cfg = [c \in Cfgs |-> NoCfg]
  /\ loggers = EmptyDict
  /\ heap = << >>
  /\ fs = {}
  /\ lastOp = NoOp
  /\ lv_in = NoneLevel
  /\ lv_out = NOTSET

\* Logger.__init__.  The objects are numbered in the order of construction.
Construct(c, module_name, log_path, log_level) ==
  /\ ~cfg[c].constructed
  /\ \A b \in Cfgs : b < c => cfg[b].constructed
  /\ Len(heap) + 2 <= MaxHandlers
  /\ LET d == DeriveLogPath(fs, log_path)
         lvl == StdLogLevel(log_level)
         rich == CreateRichConsoleHandler(lvl, DEFAULT_FORMATTER)
         file == CreateFileHandler(lvl, DEFAULT_FORMATTER,
                                   << d.path, "/", module_name, ".log" >>)
         self0 == [constructed |-> TRUE,
                   module_name |-> module_name,
                   log_path |-> d.path,
                   log_level |-> Upper(Str(log_level)),
                   log_level_int |-> lvl,
                   logger |-> NoLogger,
                   handlers |-> DictSet(DictSet(EmptyDict, RichKey,
                                                Len(heap) + 1),
                                        FileKey, Len(heap) + 2),
                   formatters |-> DictSet(EmptyDict, DefaultFormatterKey,
                                          DEFAULT_FORMATTER)]
         r == SetupLoggerOn(self0, loggers, self0.module_name,
                            self0.log_level)
     IN  /\ cfg' = [cfg EXCEPT ![c] = r.self]
         /\ loggers' = r.loggers
         /\ heap' = heap \o << rich, file >>
         /\ fs' = d.fs
         /\ lastOp' = [Call("construct", c) EXCEPT
                         !.name = module_name, !.level = log_level]
  /\ UNCHANGED << lv_in, lv_out >>

\* Logger.setup_logger
SetupLogger(c, module_name, log_level) ==
  /\ cfg[c].constructed
  /\ LET r == SetupLoggerOn(cfg[c], loggers, module_name, log_level)
     IN  /\ cfg' = [cfg EXCEPT ![c] = r.self]
         /\ loggers' = r.loggers
  /\ lastOp' = [Call("setup_logger", c) EXCEPT
                  !.name = module_name, !.level = log_level]
  /\ UNCHANGED << heap, fs, lv_in, lv_out >>

\* Logger.reset_handlers_logger
ResetHandlersLogger(c) ==
  /\ cfg[c].constructed
  /\ LET r == ResetHandlersLoggerOn(cfg[c], loggers)
     IN  /\ loggers' = r.loggers
         /\ lastOp' = [Call("reset_handlers_logger", c) EXCEPT
                         !.ret = IF r.ret THEN "True" ELSE "False"]
  /\ UNCHANGED << cfg, heap, fs, lv_in, lv_out >>

\* Logger.remove_handler_logger
RemoveHandlerLogger(c, handler_key) ==
  /\ cfg[c].constructed
  /\ LET r == RemoveHandlerLoggerOn(cfg[c], loggers, handler_key)
     IN  /\ loggers' = r.loggers
         /\ lastOp' = [Call("remove_handler_logger", c) EXCEPT
                         !.key = handler_key, !.ret = r.ret]
  /\ UNCHANGED << cfg, heap, fs, lv_in, lv_out >>

\* Logger.add_handler_logger
AddHandlerLogger(c, handler_key) ==
  /\ cfg[c].constructed
  /\ LET r == AddHandlerLoggerOn(cfg[c], loggers, handler_key)
     IN  /\ loggers' = r.loggers
         /\ lastOp' = [Call("add_handler_logger", c) EXCEPT
                         !.key = handler_key, !.ret = r.ret]
  /\ UNCHANGED << cfg, heap, fs, lv_in, lv_out >>

\* Logger.get_handler
GetHandler(c, handler_key) ==
  /\ cfg[c].constructed
  /\ lastOp' = [Call("get_handler", c) EXCEPT
                  !.key = handler_key,
                  !.obj = GetHandlerOf(cfg[c], handler_key),
                  !.ret = IF GetHandlerOf(cfg[c], handler_key) = 0
                          THEN "UnboundLocalError" ELSE "handler"]
  /\ UNCHANGED << cfg, loggers, heap, fs, lv_in, lv_out >>

\* update_handlers_list with a fault: the new entry is attached at once.
UpdateHandlersList_Attach(c, handler_key, handler) ==
  /\ cfg[c].constructed
  /\ handler \in 1..(Len(heap) + 1)
  /\ handler <= MaxHandlers
  /\ heap' = IF handler = Len(heap) + 1
             THEN Append(heap, CreateConsoleHandler(DEBUG, CallerFormatter))
             ELSE heap
  /\ cfg' = [cfg EXCEPT ![c].handlers = DictSet(@, handler_key, handler)]
  /\ loggers' = [loggers EXCEPT ![cfg[c].logger].handlers = @ \cup {handler}]
  /\ lastOp' = [Call("update_handlers_list", c) EXCEPT
                  !.key = handler_key, !.obj = handler]
  /\ UNCHANGED << fs, lv_in, lv_out >>

\* update_handlers_list with a fault: the entry is stored under the key only
\* when the key is new.
UpdateHandlersList_KeepFirst(c, handler_key, handler) ==
  /\ cfg[c].constructed
  /\ handler \in 1..(Len(heap) + 1)
  /\ handler <= MaxHandlers
  /\ heap' = IF handler = Len(heap) + 1
             THEN Append(heap, CreateConsoleHandler(DEBUG, CallerFormatter))
             ELSE heap
  /\ cfg' = [cfg EXCEPT ![c].handlers =
               IF handler_key \in DOMAIN @
               THEN @ ELSE DictSet(@, handler_key, handler)]
  /\ lastOp' = [Call("update_handlers_list", c) EXCEPT
                  !.key = handler_key, !.obj = handler]
  /\ UNCHANGED << loggers, fs, lv_in, lv_out >>

\* Logger.update_handlers_list.  The handler is one that exists already or
\* one the caller builds for the call (with create_console_handler).
UpdateHandlersList(c, handler_key, handler) ==
  /\ cfg[c].constructed
  /\ handler \in 1..(Len(heap) + 1)
  /\ handler <= MaxHandlers
  /\ heap' = IF handler = Len(heap) + 1
             THEN Append(heap, CreateConsoleHandler(DEBUG, CallerFormatter))
             ELSE heap
  /\ cfg' = [cfg EXCEPT ![c].handlers = DictSet(@, handler_key, handler)]
  /\ lastOp' = [Call("update_handlers_list", c) EXCEPT
                  !.key = handler_key, !.obj = handler]
  /\ UNCHANGED << loggers, fs, lv_in, lv_out >>

\* reset_handlers_list with a fault: the registry is not cleared first.
ResetHandlersList_KeepOld(c) ==
  /\ cfg[c].constructed
  /\ Len(heap) + 2 <= MaxHandlers
  /\ DefaultFormatterKey \in DOMAIN cfg[c].formatters
  /\ LET self == cfg[c]
         console == CreateConsoleHandler(
                      self.log_level_int,
                      self.formatters[DefaultFormatterKey])
         file == CreateFileHandler(
                   self.log_level_int,
                   self.formatters[DefaultFormatterKey],
                   << self.log_path, "/", self.module_name >>)
     IN  /\ heap' = heap \o << console, file >>
         /\ cfg' = [cfg EXCEPT ![c].handlers =
                      DictSet(DictSet(@, ConsoleKey, Len(heap) + 1),
                              FileKey, Len(heap) + 2)]
  /\ lastOp' = Call("reset_handlers_list", c)
  /\ UNCHANGED << loggers, fs, lv_in, lv_out >>

\* Logger.reset_handlers_list
ResetHandlersList(c) ==
  /\ cfg[c].constructed
  /\ Len(heap) + 2 <= MaxHandlers
  /\ DefaultFormatterKey \in DOMAIN cfg[c].formatters
  /\ LET self == cfg[c]
         console == CreateConsoleHandler(
                      self.log_level_int,
                      self.formatters[DefaultFormatterKey])
         file == CreateFileHandler(
                   self.log_level_int,
                   self.formatters[DefaultFormatterKey],
                   << self.log_path, "/", self.module_name >>)
     IN  /\ heap' = heap \o << console, file >>
         /\ cfg' = [cfg EXCEPT ![c].handlers =
                      DictSet(DictSet(EmptyDict, ConsoleKey, Len(heap) + 1),
                              FileKey, Len(heap) + 2)]
  /\ lastOp' = Call("reset_handlers_list", c)
  /\ UNCHANGED << loggers, fs, lv_in, lv_out >>

\* Logger.get_formatter
GetFormatter(c, formatter_key) ==
  /\ cfg[c].constructed
  /\ lastOp' = [Call("get_formatter", c) EXCEPT
                  !.key = formatter_key,
                  !.fmt = GetFormatterOf(cfg[c], formatter_key)]
  /\ UNCHANGED << cfg, loggers, heap, fs, lv_in, lv_out >>

\* Logger.update_formatters_list
UpdateFormattersList(c, formatter_key, formatter) ==
  /\ cfg[c].constructed
  /\ cfg' = [cfg EXCEPT ![c].formatters = DictSet(@, formatter_key, formatter)]
  /\ lastOp' = [Call("update_formatters_list", c) EXCEPT
                  !.key = formatter_key, !.fmt = formatter]
  /\ UNCHANGED << loggers, heap, fs, lv_in, lv_out >>

\* Logger.reset_formatters_list
ResetFormattersList(c) ==
  /\ cfg[c].constructed
  /\ cfg' = [cfg EXCEPT ![c].formatters =
               DictSet(EmptyDict, DefaultFormatterKey, DEFAULT_FORMATTER)]
  /\ lastOp' = Call("reset_formatters_list", c)
  /\ UNCHANGED << loggers, heap, fs, lv_in, lv_out >>

\* The logger field assigned from outside, as the test of
\* reset_handlers_logger does: None, or a logger of the table.
SetLoggerField(c, value) ==
  /\ cfg[c].constructed
  /\ value \in {NoLogger} \cup DOMAIN loggers
  /\ cfg' = [cfg EXCEPT ![c].logger = value]
  /\ lastOp' = [Call("set_logger_field", c) EXCEPT !.name = value]
  /\ UNCHANGED << loggers, heap, fs, lv_in, lv_out >>

\* _derive_log_path called on its own.  os.makedirs is called when the logs
\* directory is needed and missing; makedirs_ok says whether it succeeds,
\* and its failure leaves the function as a RuntimeError.
DeriveLogPathCall(log_path, makedirs_ok) ==
  /\ LET r == DeriveLogPath(fs, log_path)
     IN  IF r.fs # fs /\ ~makedirs_ok
         THEN /\ fs' = fs
              /\ lastOp' = [NoOp EXCEPT !.op = "_derive_log_path",
                              !.name = log_path, !.ret = "RuntimeError"]
         ELSE /\ fs' = r.fs
              /\ lastOp' = [NoOp EXCEPT !.op = "_derive_log_path",
                              !.name = log_path, !.ret = r.path]
  /\ UNCHANGED << cfg, loggers, heap, lv_in, lv_out >>

\* A handler factory called on its own
CreateHandlerCall(kind, log_level_int, formatter, params) ==
  /\ LET r == CreateHandler(kind, log_level_int, formatter, params)
     IN  lastOp' = [NoOp EXCEPT !.op = "create_handler", !.key = kind,
                      !.name = params.tag, !.arg = params.method,
                      !.thr = log_level_int, !.fmt = formatter,
                      !.ret = IF r.raised = "None" THEN "handler"
                              ELSE r.raised,
                      !.res = r.res]
  /\ UNCHANGED << cfg, loggers, heap, fs, lv_in, lv_out >>

\* _std_log_level called on its own, on the argument drawn at the start
StdLogLevelCall ==
  /\ lv_out = NOTSET
  /\ lv_out' = StdLogLevel(lv_in)
  /\ UNCHANGED << cfg, loggers, heap, fs, lastOp, lv_in >>

\* Two configuration objects on the shared table, every severity left at
\* its default.
Next ==
  \/ \E c \in Cfgs, n \in LoggerNames : Construct(c, n, NoName, s_DEBUG)
  \/ \E c \in Cfgs, n \in SetupNames : SetupLogger(c, n, NoneLevel)
  \/ \E c \in Cfgs : ResetHandlersLogger(c)
  \/ \E c \in Cfgs, k \in AttachKeys : RemoveHandlerLogger(c, k)
  \/ \E c \in Cfgs, k \in AttachKeys : AddHandlerLogger(c, k)
  \/ \E c \in Cfgs, k \in UpdateKeys :
       UpdateHandlersList(c, k, Len(heap) + 1)
  \/ \E c \in Cfgs : ResetHandlersList(c)
  \/ \E c \in Cfgs : UpdateFormattersList(c, TestFormatterKey, CallerFormatter)
  \/ \E c \in Cfgs : ResetFormattersList(c)

Spec == Init /\ [][Next]_vars

\* One configuration object, with every kind of severity argument given to
\* the constructor and to setup_logger.
NextSeverity ==
  \/ \E p \in PathArgs, l \in LevelArgs : Construct(1, "A", p, l)
  \/ \E n \in {NoName, "", "A"}, l \in LevelArgs : SetupLogger(1, n, l)
  \/ ResetHandlersLogger(1)
  \/ \E k \in AttachKeys : RemoveHandlerLogger(1, k)
  \/ \E k \in AttachKeys : AddHandlerLogger(1, k)
  \/ UpdateHandlersList(1, TestKey, Len(heap) + 1)
  \/ ResetHandlersList(1)

SpecSeverity == Init /\ [][NextSeverity]_vars

\* One configuration object whose logger field the caller also assigns.
NextField ==
  \/ Construct(1, "A", NoName, s_DEBUG)
  \/ \E n \in {NoName, "B"} : SetupLogger(1, n, NoneLevel)
  \/ ResetHandlersLogger(1)
  \/ \E k \in AttachKeys : RemoveHandlerLogger(1, k)
  \/ \E k \in AttachKeys : AddHandlerLogger(1, k)
  \/ UpdateHandlersList(1, TestKey, Len(heap) + 1)
  \/ ResetHandlersList(1)
  \/ \E v \in {NoLogger} \cup LoggerNames : SetLoggerField(1, v)

SpecField == Init /\ [][NextField]_vars

\* One configuration object, both registries and the lookups in them.
NextLookup ==
  \/ \E l \in {s_DEBUG, s_Error} : Construct(1, "A", NoName, l)
  \/ SetupLogger(1, NoName, NoneLevel)
  \/ ResetHandlersLogger(1)
  \/ AddHandlerLogger(1, FileKey)
  \/ \E k \in RegistryKeys, h \in {1, Len(heap) + 1} :
       UpdateHandlersList(1, k, h)
  \/ ResetHandlersList(1)
  \/ \E k \in LookupKeys : GetHandler(1, k)
  \/ \E k \in FormatterKeys : UpdateFormattersList(1, k, CallerFormatter)
  \/ ResetFormattersList(1)
  \/ \E k \in FormatterLookupKeys : GetFormatter(1, k)

SpecLookup == Init /\ [][NextLookup]_vars

\* _derive_log_path alone, on a working directory that holds any of PathDirs.
InitPath ==
  /\ cfg = [c \in Cfgs |-> NoCfg]
  /\ loggers = EmptyDict
  /\ heap = << >>
  /\ fs \in SUBSET PathDirs
  /\ lastOp = NoOp
  /\ lv_in = NoneLevel
  /\ lv_out = NOTSET

NextPath ==
  \E p \in PathCandidates, ok \in BOOLEAN : DeriveLogPathCall(p, ok)

SpecPath == InitPath /\ [][NextPath]_vars

\* The handler factories alone.
NextFactory ==
  \E kind \in FactoryKinds, l \in ThresholdArgs,
     f \in {DEFAULT_FORMATTER, CallerFormatter} :
    \E v \in Variants(kind) : CreateHandlerCall(kind, l, f, v)

SpecFactory == Init /\ [][NextFactory]_vars

\* _std_log_level alone, on one argument of LevelInputs.
InitLevel ==
  /\ cfg = [c \in Cfgs |-> NoCfg]
  /\ loggers = EmptyDict
  /\ heap = << >>
  /\ fs = {}
  /\ lastOp = NoOp
  /\ lv_in \in LevelInputs
  /\ lv_out = NOTSET

NextLevel == StdLogLevelCall

SpecLevel == InitLevel /\ [][NextLevel]_vars

\* ------------------------------------------------------------------ claims

\* The live logger of configuration c (c constructed, its field not None).
Live(c) == loggers[cfg[c].logger]
\* The destinations attached to c's live logger.
Attached(c) == loggers[cfg[c].logger].handlers
\* The destinations attached to c's live logger after the step.
AttachedAfter(c) == loggers'[cfg'[c].logger].handlers
\* The values of c's destination registry.
Registered(c) == Range(cfg[c].handlers)

\* C1: right after any setup_logger call, the one inside construction
\* included, the destinations attached to the configuration's live logger
\* are exactly the values of its destination registry.
C1_SetupSyncsAttachedToRegistry ==
  lastOp.op \in {"construct", "setup_logger"}
    => Attached(lastOp.self) = Registered(lastOp.self)

\* C2: after every construction with the default severity the live logger
\* has exactly two attached destinations, the rich-console one and the file
\* one this construction seeded, and its threshold is DEBUG.
C2_ConstructionAttachesTwoDefaults ==
  (lastOp.op = "construct" /\ lastOp.level = s_DEBUG)
    => LET c == lastOp.self
       IN  /\ Cardinality(Attached(c)) = 2
           /\ Attached(c) = {cfg[c].handlers[RichKey], cfg[c].handlers[FileKey]}
           /\ heap[cfg[c].handlers[RichKey]].kind = "rich_console"
           /\ heap[cfg[c].handlers[FileKey]].kind = "file"
           /\ Live(c).level = DEBUG

\* The arguments of the setup_logger call inside the last construction.
InnerSetupArgs == << lastOp.name, Upper(Str(lastOp.level)) >>

\* C3: a setup_logger call that follows at once a setup_logger call (or a
\* construction, whose inner call counts) of the same object with the same
\* arguments leaves the live logger's attached set as the first call left it.
C3_SetupIdempotent ==
  [][(/\ lastOp'.op = "setup_logger"
      /\ lastOp'.self = lastOp.self
      /\ \/ /\ lastOp.op = "setup_logger"
            /\ << lastOp'.name, lastOp'.level >> = << lastOp.name, lastOp.level >>
         \/ /\ lastOp.op = "construct"
            /\ << lastOp'.name, lastOp'.level >> = InnerSetupArgs)
       => AttachedAfter(lastOp.self) = Attached(lastOp.self)]_vars

\* The numeric constant of a severity name written in capitals.
LevelNumber(W) ==
  CASE W = << "D", "E", "B", "U", "G" >> -> DEBUG
    [] W = << "I", "N", "F", "O" >> -> INFO
    [] W = << "W", "A", "R", "N", "I", "N", "G" >> -> WARNING
    [] W = << "E", "R", "R", "O", "R" >> -> ERROR
    [] W = << "C", "R", "I", "T", "I", "C", "A", "L" >> -> CRITICAL

\* s is W in upper, lower or mixed case.
IsSpelling(s, W) ==
  /\ Len(s) = Len(W)
  /\ \A i \in 1..Len(W) : s[i] = W[i] \/ s[i] = LowerChar(W[i])

\* s is W in upper, lower or mixed case, a dotless i allowed for any I.
IsDotlessSpelling(s, W) ==
  /\ Len(s) = Len(W)
  /\ \A i \in 1..Len(W) :
       \/ s[i] = W[i]
       \/ s[i] = LowerChar(W[i])
       \/ W[i] = "I" /\ s[i] = DotlessI

\* C4, as claimed: every spelling of a severity name maps to its constant,
\* every other string to INFO, and None to DEBUG.
C4_StdLogLevelOriginal ==
  lv_out # NOTSET
    => /\ lv_in = NoneLevel => lv_out = DEBUG
       /\ \A W \in LevelNames : IsSpelling(lv_in, W) => lv_out = LevelNumber(W)
       /\ (lv_in # NoneLevel /\ \A W \in LevelNames : ~IsSpelling(lv_in, W))
            => lv_out = INFO

\* C4, amended: every spelling of a severity name maps to its constant, also
\* when a dotless i (U+0131) stands for an I; every string that is no such
\* spelling maps to INFO; None maps to DEBUG.
C4_StdLogLevel ==
  lv_out # NOTSET
    => /\ lv_in = NoneLevel => lv_out = DEBUG
       /\ \A W \in LevelNames :
            IsDotlessSpelling(lv_in, W) => lv_out = LevelNumber(W)
       /\ (lv_in # NoneLevel
            /\ \A W \in LevelNames : ~IsDotlessSpelling(lv_in, W))
            => lv_out = INFO

\* _std_log_level has mapped a mixed-case spelling of WARNING.
C4_Witness ==
  /\ lv_in = << "W", "a", "R", "n", "I", "n", "g" >>
  /\ lv_out = WARNING

\* C5: after construction with any severity argument, the live logger's
\* threshold is the severity _std_log_level resolves for the argument, which
\* is the stored numeric severity and the threshold of both defaults.
C5_ConstructedSeverity ==
  lastOp.op = "construct"
    => LET c == lastOp.self
           resolved == StdLogLevel(lastOp.level)
       IN  /\ cfg[c].log_level_int = resolved
           /\ heap[cfg[c].handlers[RichKey]].level = resolved
           /\ heap[cfg[c].handlers[FileKey]].level = resolved
           /\ Live(c).level = resolved

\* C6: a constructed configuration's logger is the logger the table holds
\* under the configuration's stored name.
C6_LiveLoggerIsStoredName ==
  \A c \in Cfgs :
    cfg[c].constructed
      => /\ cfg[c].logger \in DOMAIN loggers
         /\ cfg[c].logger = cfg[c].module_name

C8_AddHandlerLogger ==
  [][lastOp'.op = "add_handler_logger"
       => LET c == lastOp'.self
              k == lastOp'.key
          IN  /\ lastOp'.ret = "False" <=> k \notin DOMAIN cfg[c].handlers
              /\ lastOp'.ret = "True" <=> k \in DOMAIN cfg[c].handlers
              /\ k \notin DOMAIN cfg[c].handlers
                   => /\ AttachedAfter(c) = Attached(c)
                      /\ Cardinality(AttachedAfter(c)) = Cardinality(Attached(c))
              /\ k \in DOMAIN cfg[c].handlers
                   => cfg[c].handlers[k] \in AttachedAfter(c)
              /\ cfg' = cfg]_vars

\* add_handler_logger has returned False for a key the registry lacks, on a
\* live logger that has handlers.
C8_Witness ==
  /\ lastOp.op = "add_handler_logger"
  /\ lastOp.ret = "False"
  /\ lastOp.key \notin DOMAIN cfg[lastOp.self].handlers
  /\ Attached(lastOp.self) # {}

\* C9: remove_handler_logger returns False exactly when the key is not in
\* the destination registry, leaving the attached set unchanged; with the key
\* present it returns True, the entry registered under the key is not
\* attached afterwards, every other attached destination stays attached, and
\* the registry is unchanged.
C9_RemoveHandlerLogger ==
  [][lastOp'.op = "remove_handler_logger"
       => LET c == lastOp'.self
              k == lastOp'.key
          IN  /\ lastOp'.ret = "False" <=> k \notin DOMAIN cfg[c].handlers
              /\ lastOp'.ret = "True" <=> k \in DOMAIN cfg[c].handlers
              /\ k \notin DOMAIN cfg[c].handlers
                   => AttachedAfter(c) = Attached(c)
              /\ k \in DOMAIN cfg[c].handlers
                   => /\ cfg[c].handlers[k] \notin AttachedAfter(c)
                      /\ AttachedAfter(c) = Attached(c) \ {cfg[c].handlers[k]}
              /\ cfg' = cfg]_vars

\* remove_handler_logger has returned True, the entry under the key is
\* detached and another destination is still attached.
C9_Witness ==
  /\ lastOp.op = "remove_handler_logger"
  /\ lastOp.ret = "True"
  /\ cfg[lastOp.self].handlers[lastOp.key] \notin Attached(lastOp.self)
  /\ Attached(lastOp.self) # {}

\* What a logger of the table holds, {} for a name with no logger yet.
HandlersOf(lg, n) == IF n \in DOMAIN lg THEN lg[n].handlers ELSE {}

\* C10: update_handlers_list, update_formatters_list, reset_handlers_list and
\* reset_formatters_list leave every logger of the table (attached set,
\* threshold, propagation flag) and every configuration's logger reference as
\* they were; a logger's attached set changes only in a setup_logger call
\* (that of a construction included), add_handler_logger,
\* remove_handler_logger or reset_handlers_logger.
C10_RegistryCallsLeaveLiveLogger ==
  [][/\ lastOp'.op \in {"update_handlers_list", "update_formatters_list",
                        "reset_handlers_list", "reset_formatters_list"}
        => /\ loggers' = loggers
           /\ \A c \in Cfgs : cfg'[c].logger = cfg[c].logger
     /\ (\E n \in LoggerNames : HandlersOf(loggers', n) # HandlersOf(loggers, n))
        => lastOp'.op \in {"construct", "setup_logger", "add_handler_logger",
                           "remove_handler_logger", "reset_handlers_logger"}]_vars

\* reset_handlers_list has replaced the registry and the live logger still
\* holds the handlers it held, none of them registered any more.
C10_Witness ==
  /\ lastOp.op = "reset_handlers_list"
  /\ Attached(lastOp.self) # {}
  /\ Attached(lastOp.self) \cap Registered(lastOp.self) = {}

\* The registry of the object the last call was made on.
LastRegistry == cfg[lastOp.self].handlers
\* The last call was a get_handler with a key the registry does not hold.
HandlerMiss ==
  lastOp.op = "get_handler" /\ lastOp.key \notin DOMAIN LastRegistry
\* The last call was a get_formatter with a key the registry does not hold.
FormatterMiss ==
  /\ lastOp.op = "get_formatter"
  /\ lastOp.key \notin DOMAIN cfg[lastOp.self].formatters

\* C11: after reset_handlers_list, whatever the registry held before, it
\* holds exactly the keys console_handler and file_handler, each a handler
\* that did not exist before the call, of the console and the file kind,
\* with the object's numeric severity and the formatter registered as
\* default_formatter; get_handler on either key returns that entry.
C11_ResetHandlersList ==
  [][lastOp'.op = "reset_handlers_list"
       => LET c == lastOp'.self
              reg == cfg'[c].handlers
          IN  /\ DOMAIN reg = {ConsoleKey, FileKey}
              /\ reg[ConsoleKey] \notin 1..Len(heap)
              /\ reg[FileKey] \notin 1..Len(heap)
              /\ reg[ConsoleKey] # reg[FileKey]
              /\ heap'[reg[ConsoleKey]].kind = "console"
              /\ heap'[reg[FileKey]].kind = "file"
              /\ \A k \in {ConsoleKey, FileKey} :
                   /\ heap'[reg[k]].level = cfg[c].log_level_int
                   /\ heap'[reg[k]].fmt = cfg[c].formatters[DefaultFormatterKey]
                   /\ GetHandlerOf(cfg'[c], k) = reg[k]]_vars

\* A reset of the registry of an object built with severity ERROR whose
\* default_formatter entry the caller has replaced.
C11_Witness ==
  /\ lastOp.op = "reset_handlers_list"
  /\ cfg[1].log_level_int = ERROR
  /\ cfg[1].formatters[DefaultFormatterKey] = CallerFormatter
  /\ heap[cfg[1].handlers[FileKey]].fmt = CallerFormatter
  /\ heap[cfg[1].handlers[ConsoleKey]].level = ERROR

\* C12: in every state after construction the registry holds at least one
\* of console_handler, file_handler, rich_console_handler, and get_handler
\* with a key the registry does not hold returns a handler of the registry,
\* raises nothing and changes neither registry nor the live logger.
C12_GetHandlerMissFallsBack ==
  [][/\ \A c \in Cfgs :
          cfg'[c].constructed
            => {ConsoleKey, FileKey, RichKey} \cap DOMAIN cfg'[c].handlers # {}
     /\ (/\ lastOp'.op = "get_handler"
         /\ lastOp'.key \notin DOMAIN cfg[lastOp'.self].handlers)
          => /\ lastOp'.ret = "handler"
             /\ lastOp'.obj # 0
             /\ lastOp'.obj \in Range(cfg[lastOp'.self].handlers)
             /\ cfg' = cfg
             /\ loggers' = loggers
             /\ heap' = heap]_vars

\* A lookup miss on a registry that was reset, with a destination attached.
C12_Witness ==
  /\ HandlerMiss
  /\ lastOp.key = "rubbish"
  /\ DOMAIN LastRegistry = {ConsoleKey, FileKey}
  /\ lastOp.obj \in Range(LastRegistry)
  /\ Attached(1) # {}

\* C13 as stated: on a lookup miss get_handler returns the first entry that
\* exists in the order console_handler, file_handler, rich_console_handler.
C13_ConsoleFirst ==
  HandlerMiss
    => lastOp.obj = IF ConsoleKey \in DOMAIN LastRegistry
                    THEN LastRegistry[ConsoleKey]
                    ELSE IF FileKey \in DOMAIN LastRegistry
                         THEN LastRegistry[FileKey]
                         ELSE LastRegistry[RichKey]

\* C13: on a lookup miss get_handler returns the last entry that exists in
\* the order console_handler, file_handler, rich_console_handler: the rich
\* console entry whenever it is registered, the file entry only when no
\* rich console entry is, the console entry only when neither is.
C13_LastExistingWins ==
  HandlerMiss
    => /\ RichKey \in DOMAIN LastRegistry
            => lastOp.obj = LastRegistry[RichKey]
       /\ (RichKey \notin DOMAIN LastRegistry /\ FileKey \in DOMAIN LastRegistry)
            => lastOp.obj = LastRegistry[FileKey]
       /\ ({RichKey, FileKey} \cap DOMAIN LastRegistry = {}
             /\ ConsoleKey \in DOMAIN LastRegistry)
            => lastOp.obj = LastRegistry[ConsoleKey]

\* A miss with the console entry registered that returns the file entry.
C13_Witness ==
  /\ HandlerMiss
  /\ {ConsoleKey, FileKey} \subseteq DOMAIN LastRegistry
  /\ RichKey \notin DOMAIN LastRegistry
  /\ lastOp.obj = LastRegistry[FileKey]
  /\ lastOp.obj # LastRegistry[ConsoleKey]

\* C14 as stated: get_formatter with a key the formatter registry does not
\* hold returns the built-in DEFAULT_FORMATTER, also after an
\* update_formatters_list on the key default_formatter.
C14_BuiltinDefault ==
  FormatterMiss => lastOp.fmt = DEFAULT_FORMATTER

\* C14: the formatter registry always holds the key default_formatter, and
\* get_formatter with a key the registry does not hold raises nothing and
\* returns the formatter registered under default_formatter at that time.
C14_RegisteredDefault ==
  /\ \A c \in Cfgs :
       cfg[c].constructed => DefaultFormatterKey \in DOMAIN cfg[c].formatters
  /\ FormatterMiss
       => /\ lastOp.fmt = cfg[lastOp.self].formatters[DefaultFormatterKey]
          /\ lastOp.fmt \in {DEFAULT_FORMATTER, CallerFormatter}

\* A miss after the default_formatter entry was replaced.
C14_Witness ==
  /\ FormatterMiss
  /\ lastOp.fmt = CallerFormatter
  /\ TestFormatterKey \notin DOMAIN cfg[lastOp.self].formatters

\* C15: update_handlers_list(k, D) makes k hold D itself, adds no other key
\* and changes no other entry; only that call, reset_handlers_list and the
\* constructor change the registry; get_handler(k) with k registered
\* returns the entry under k.  So a lookup returns the handler of the most
\* recent update of its key since the last reset.  The same holds of
\* update_formatters_list, reset_formatters_list and get_formatter.
C15_RegistryRoundTrip ==
  [][LET c == lastOp'.self
         k == lastOp'.key
     IN  /\ lastOp'.op = "update_handlers_list"
              => /\ DOMAIN cfg'[c].handlers = DOMAIN cfg[c].handlers \cup {k}
                 /\ \A j \in DOMAIN cfg'[c].handlers :
                      cfg'[c].handlers[j] = IF j = k THEN lastOp'.obj
                                            ELSE cfg[c].handlers[j]
                 /\ GetHandlerOf(cfg'[c], k) = lastOp'.obj
         /\ lastOp'.op \notin {"update_handlers_list", "reset_handlers_list",
                               "construct"}
              => cfg'[c].handlers = cfg[c].handlers
         /\ (lastOp'.op = "get_handler" /\ k \in DOMAIN cfg[c].handlers)
              => lastOp'.obj = cfg[c].handlers[k]
         /\ lastOp'.op = "update_formatters_list"
              => /\ DOMAIN cfg'[c].formatters
                      = DOMAIN cfg[c].formatters \cup {k}
                 /\ \A j \in DOMAIN cfg'[c].formatters :
                      cfg'[c].formatters[j] = IF j = k THEN lastOp'.fmt
                                              ELSE cfg[c].formatters[j]
                 /\ GetFormatterOf(cfg'[c], k) = lastOp'.fmt
         /\ lastOp'.op \notin {"update_formatters_list",
                               "reset_formatters_list", "construct"}
              => cfg'[c].formatters = cfg[c].formatters
         /\ (lastOp'.op = "get_formatter" /\ k \in DOMAIN cfg[c].formatters)
              => lastOp'.fmt = cfg[c].formatters[k]]_vars

\* A lookup of rich_console_handler after the caller replaced the entry the
\* constructor seeded, the file entry still being the seeded one.
C15_Witness ==
  /\ lastOp.op = "get_handler"
  /\ lastOp.key = RichKey
  /\ {RichKey, FileKey} \subseteq DOMAIN LastRegistry
  /\ lastOp.obj = LastRegistry[RichKey]
  /\ heap[lastOp.obj].kind = "console"
  /\ heap[LastRegistry[FileKey]].kind = "file"
  /\ cfg[lastOp.self].formatters[DefaultFormatterKey] = CallerFormatter

\* C18: every file destination the object creates, the one seeded by the
\* constructor and each one reseeded by reset_handlers_list, targets the
\* same path.
C18_OneLogFile ==
  \A i, j \in DOMAIN heap :
    (heap[i].kind = "file" /\ heap[j].kind = "file")
      => heap[i].path = heap[j].path

\* C19: after construction the live logger of every configuration object
\* has propagation to its parent switched off.
C19_PropagateOff ==
  \A c \in Cfgs :
    cfg[c].constructed
      => /\ cfg[c].logger \in DOMAIN loggers
         /\ ~Live(c).propagate

\* A setup_logger call has bound an object to a logger other than the one
\* of its construction.
C19_Witness ==
  /\ lastOp.op = "setup_logger"
  /\ cfg[lastOp.self].logger # cfg[lastOp.self].module_name
  /\ ~Live(lastOp.self).propagate

\* The keys in the order of the get_handler docstring.
DocstringPriority == << RichKey, FileKey, ConsoleKey >>

\* C20: on a lookup miss get_handler returns the entry of the first key
\* registered in the docstring's order: rich_console_handler, otherwise
\* file_handler, otherwise console_handler.
C20_RichHasPriority ==
  HandlerMiss
    => \E i \in DOMAIN DocstringPriority :
         /\ DocstringPriority[i] \in DOMAIN LastRegistry
         /\ \A j \in 1..(i - 1) :
              DocstringPriority[j] \notin DOMAIN LastRegistry
         /\ lastOp.obj = LastRegistry[DocstringPriority[i]]

\* A miss with all three keys registered that returns the rich console
\* entry, which is neither the file entry nor the console entry.
C20_Witness ==
  /\ HandlerMiss
  /\ {RichKey, FileKey, ConsoleKey} \subseteq DOMAIN LastRegistry
  /\ lastOp.obj = LastRegistry[RichKey]
  /\ lastOp.obj \notin {LastRegistry[FileKey], LastRegistry[ConsoleKey]}

\* C16 as stated: when the argument is absent or names no existing
\* directory, _derive_log_path returns logs, which it creates when missing,
\* and leaves the directory of the argument uncreated; when the directory
\* of the argument exists it is returned and nothing is created; the
\* directory returned exists when the call returns.
C16_CandidateUncreated ==
  [][(lastOp'.op = "_derive_log_path" /\ lastOp'.ret # "RuntimeError")
       => LET p == lastOp'.name
          IN  /\ IF p = NoName \/ p \notin fs
                 THEN /\ lastOp'.ret = "logs"
                      /\ fs' = fs \cup {"logs"}
                      /\ p \notin fs'
                 ELSE /\ lastOp'.ret = p
                      /\ fs' = fs
              /\ lastOp'.ret \in fs']_vars

\* C16: as above, but the directory of the argument stays uncreated only
\* when it is not the logs directory itself: logs is the one directory
\* the function ever creates.
C16_DeriveLogPath ==
  [][(lastOp'.op = "_derive_log_path" /\ lastOp'.ret # "RuntimeError")
       => LET p == lastOp'.name
          IN  /\ IF p = NoName \/ p \notin fs
                 THEN /\ lastOp'.ret = "logs"
                      /\ fs' = fs \cup {"logs"}
                      /\ p # "logs" => p \notin fs'
                 ELSE /\ lastOp'.ret = p
                      /\ fs' = fs
              /\ lastOp'.ret \in fs']_vars

\* A call with a missing directory that had to create logs.
C16_Witness ==
  /\ lastOp.op = "_derive_log_path"
  /\ lastOp.name = "missing"
  /\ lastOp.ret = "logs"
  /\ fs = {"logs", "custom"}

\* The last call was a factory call.
FactoryCall == lastOp.op = "create_handler"
\* Its threshold argument is a number or a level name.
ThresholdValid ==
  \/ lastOp.thr.t = "int"
  \/ lastOp.thr.t = "str" /\ lastOp.thr.s \in {"DEBUG", "INFO", "WARNING",
                                                "ERROR", "CRITICAL", "NOTSET"}
\* The number of its threshold argument.
ThresholdNumber ==
  IF lastOp.thr.t = "int" THEN lastOp.thr.n
  ELSE CASE lastOp.thr.s = "DEBUG" -> DEBUG
         [] lastOp.thr.s = "INFO" -> INFO
         [] lastOp.thr.s = "WARNING" -> WARNING
         [] lastOp.thr.s = "ERROR" -> ERROR
         [] lastOp.thr.s = "CRITICAL" -> CRITICAL
         [] OTHER -> NOTSET
\* Its other arguments are of the documented types and values.
VariantValid ==
  /\ lastOp.name = "default"
  /\ lastOp.key = "http" => lastOp.arg \in {m_GET, m_POST}
\* Its other arguments are ones the sink's constructor does not reject.
VariantAccepted ==
  /\ lastOp.name \in {"default", "stream_empty", "mode_unknown_delay",
                      "maxBytes_negative", "interval_negative",
                      "facility_negative", "host_int"}
  /\ lastOp.key = "http"
       => IsSpelling(lastOp.arg, m_GET) \/ IsSpelling(lastOp.arg, m_POST)
\* It returned one handler with the threshold and the formatter passed in.
ReturnedAsAsked ==
  /\ Len(lastOp.res) = 1
  /\ lastOp.res[1].kind = lastOp.key
  /\ lastOp.res[1].level = ThresholdNumber
  /\ lastOp.res[1].fmt = lastOp.fmt
\* It returned nothing and an error of the sink reached the caller.
RaisedSinkError ==
  /\ lastOp.res = << >>
  /\ lastOp.ret \in {"ValueError", "TypeError", "FileNotFoundError"}

C21_SetupKeepsConfiguredSeverity ==
  (lastOp.op = "setup_logger" /\ lastOp.level = NoneLevel)
    => Live(lastOp.self).level = cfg[lastOp.self].log_level_int

\* The destinations some registry holds.
AllRegistered == UNION {Range(cfg[d].handlers) : d \in Cfgs}
\* The destinations attached to c's live logger that no registry holds:
\* their entry has been replaced.
Unregistered(c) == Attached(c) \ AllRegistered

\* A step that replaces registry entries leaves every logger as it was.
ReplacedStaysAttached ==
  lastOp'.op \in {"update_handlers_list", "reset_handlers_list"}
    => loggers' = loggers

\* remove_handler_logger on a key whose entry is not attached returns True
\* and leaves the attached set as it was.
RemoveAfterReplace ==
  LET c == lastOp'.self
      k == lastOp'.key
  IN  (/\ lastOp'.op = "remove_handler_logger"
       /\ k \in DOMAIN cfg[c].handlers
       /\ cfg[c].handlers[k] \notin Attached(c))
        => /\ lastOp'.ret = "True"
           /\ AttachedAfter(c) = Attached(c)

\* add_handler_logger on a registered key attaches the entry next to what
\* is attached.
AddAfterReplace ==
  LET c == lastOp'.self
      k == lastOp'.key
  IN  (lastOp'.op = "add_handler_logger" /\ k \in DOMAIN cfg[c].handlers)
        => /\ lastOp'.ret = "True"
           /\ AttachedAfter(c) = Attached(c) \cup {cfg[c].handlers[k]}

\* An unregistered destination is detached from a live logger only by a
\* reset_handlers_logger call or by a setup_logger call that binds that
\* same logger.
UnregisteredLeavesOnlyByReset ==
  \A c \in Cfgs :
    cfg[c].constructed
      => \A h \in Unregistered(c) :
           h \notin loggers'[cfg[c].logger].handlers
             => \/ lastOp'.op = "reset_handlers_logger"
                \/ /\ lastOp'.op = "setup_logger"
                   /\ cfg'[lastOp'.self].logger = cfg[c].logger

\* C22: a destination that is attached and whose registry entry is then
\* replaced (update_handlers_list on its key, reset_handlers_list) stays
\* attached; a following remove_handler_logger on the key returns True and
\* leaves the attached set as it is; add_handler_logger on the key attaches
\* the replacement next to it; the unregistered destination leaves the
\* live logger only through reset_handlers_logger or a setup_logger call
\* that rebinds the same logger.
C22_UnregisteredStaysAttached ==
  [][/\ ReplacedStaysAttached
     /\ RemoveAfterReplace
     /\ AddAfterReplace
     /\ UnregisteredLeavesOnlyByReset]_vars

====
